---- MODULE Spec2Model ----
(***************************************************************************)
(* A model of the kantui board core: Status, Card, CardBuilder and the     *)
(* Kanban aggregate with its parser (src/src/board/*.rs).                  *)
(*                                                                         *)
(* Rust strings are sequences of one-character strings, so that rendering  *)
(* and parsing work on characters.  Option<T> is a record [some, val] and  *)
(* Result<T, String> a record [ok, val, err]; an error message is the      *)
(* sequence of its pieces.                                                 *)
(***************************************************************************)
EXTENDS Integers, Sequences, FiniteSets, TLC

VARIABLES
    columns, cards,                 \* the board under test: Kanban.columns, Kanban.cards
    op, res, old,                   \* last board call, its result, the board before it
    builder, lastSet, built,        \* a CardBuilder, the last argument of each setter, build()'s result
    input, pairs, pos, kanban, current_column, out, pc,   \* one run of Kanban::parse
    st_val, st_text, st_res,        \* Status -> text -> Status
    c_self, c_call, c_ret           \* a Card, the last method called on it, what it returned

boardVars == <<columns, cards, op, res, old>>
builderVars == <<builder, lastSet, built>>
parseVars == <<input, pairs, pos, kanban, current_column, out, pc>>
statusVars == <<st_val, st_text, st_res>>
cardVars == <<c_self, c_call, c_ret>>
vars == <<boardVars, builderVars, parseVars, statusVars, cardVars>>

-----------------------------------------------------------------------------
(* Bounds *)

MaxColumns == 2
MaxCards == 2
MaxLines == 3
MaxStatusLen == 3

-----------------------------------------------------------------------------
(* Option and Result *)

None == [some |-> FALSE, val |-> <<>>]
Some(v) == [some |-> TRUE, val |-> v]

Unit == <<>>
Ok(v) == [ok |-> TRUE, val |-> v, err |-> <<>>]
Err(e) == [ok |-> FALSE, val |-> <<>>, err |-> e]

\* The messages of the String errors, by the kind the text gives them.
ColumnNotFound == <<"Column does not exist">>
MissingFieldColumn == <<"Column is required">>
MissingFieldTitle == <<"Title is required">>
InvalidStatusChar == <<"Invalid Status character: ">>

SeqsUpTo(S, n) == UNION {[1..k -> S] : k \in 0..n}

-----------------------------------------------------------------------------
(* status.rs *)

Status == {"Done", "Incomplete"}

Status_default == "Incomplete"

Status_to_string_swapped(s) == IF s = "Done" THEN <<" ">> ELSE <<"x">>

Status_to_string(s) == IF s = "Done" THEN <<"x">> ELSE <<" ">>

Status_try_from(s) ==
    IF s = <<"x">> THEN Ok("Done")
    ELSE IF s = <<" ">> THEN Ok("Incomplete")
    ELSE Err(InvalidStatusChar \o s)

-----------------------------------------------------------------------------
(* card.rs *)

Card(column, status, title, date, time) ==
    [column |-> column, status |-> status, title |-> title, date |-> date, time |-> time]

move_to_reset_status(c, to) == [c EXCEPT !.column = to, !.status = Status_default]

move_to(c, to) == [c EXCEPT !.column = to]

Card_mut_rename(c, new_name) == [c EXCEPT !.title = new_name]

Card_rename_bare(c, new_name) == Card(c.column, Status_default, new_name, None, None)

Card_rename(c, new_name) ==
    [column |-> c.column, status |-> c.status, title |-> new_name, date |-> c.date, time |-> c.time]

Card_to_string_time_first(c) ==
    LET status == Status_to_string(c.status)
        date == IF c.date.some THEN <<" ", "@", "{">> \o c.date.val \o <<"}">> ELSE <<>>
        time == IF c.time.some THEN <<" ", "@", "@", "{">> \o c.time.val \o <<"}">> ELSE <<>>
    IN  <<"-", " ", "[">> \o status \o <<"]", " ">> \o c.title \o time \o date

Card_to_string(c) ==
    LET status == Status_to_string(c.status)
        date == IF c.date.some THEN <<" ", "@", "{">> \o c.date.val \o <<"}">> ELSE <<>>
        time == IF c.time.some THEN <<" ", "@", "@", "{">> \o c.time.val \o <<"}">> ELSE <<>>
    IN  <<"-", " ", "[">> \o status \o <<"]", " ">> \o c.title \o date \o time

CardBuilder_new == [column |-> None, status |-> None, title |-> None, date |-> None, time |-> None]

CardBuilder_column(b, column) == [b EXCEPT !.column = Some(column)]
CardBuilder_status(b, status) == [b EXCEPT !.status = Some(status)]
CardBuilder_title(b, title) == [b EXCEPT !.title = Some(title)]
CardBuilder_date(b, date) == [b EXCEPT !.date = Some(date)]
CardBuilder_time(b, time) == [b EXCEPT !.time = Some(time)]

CardBuilder_build_title_first(b) ==
    IF ~b.title.some THEN Err(MissingFieldTitle)
    ELSE IF ~b.column.some THEN Err(MissingFieldColumn)
    ELSE Ok(Card(b.column.val,
                 IF b.status.some THEN b.status.val ELSE Status_default,
                 b.title.val, b.date, b.time))

CardBuilder_build(b) ==
    IF ~b.column.some THEN Err(MissingFieldColumn)
    ELSE IF ~b.title.some THEN Err(MissingFieldTitle)
    ELSE Ok(Card(b.column.val,
                 IF b.status.some THEN b.status.val ELSE Status_default,
                 b.title.val, b.date, b.time))

-----------------------------------------------------------------------------
(* kanban.rs: the aggregate.  An operation on &mut self is an operator    *)
(* from the board to the pair of the board afterwards and the result.     *)

Kanban(cols, cds) == [columns |-> cols, cards |-> cds]

Kanban_default == Kanban(<<>>, <<>>)

Kanban_new(names) == Kanban(names, <<>>)

Contains(s, x) == \E i \in 1..Len(s) : s[i] = x

has_column_always(cols, column) == Ok(Unit)

has_column(cols, column) ==
    IF Contains(cols, column) THEN Ok(Unit) ELSE Err(ColumnNotFound)

add_column_dedup(k, name) ==
    [k |-> IF Contains(k.columns, name) THEN k
           ELSE [k EXCEPT !.columns = Append(k.columns, name)],
     r |-> Ok(Unit)]

add_column_front(k, name) ==
    [k |-> [k EXCEPT !.columns = <<name>> \o k.columns], r |-> Ok(Unit)]

add_column(k, name) ==
    [k |-> [k EXCEPT !.columns = Append(k.columns, name)], r |-> Ok(Unit)]

add_card_push_first(k, card) ==
    [k |-> [k EXCEPT !.cards = Append(k.cards, card)], r |-> has_column(k.columns, card.column)]

add_card(k, card) ==
    LET h == has_column(k.columns, card.column)
    IN  IF ~h.ok THEN [k |-> k, r |-> h]
        ELSE [k |-> [k EXCEPT !.cards = Append(k.cards, card)], r |-> Ok(Unit)]

move_card_first_only(k, to, card) ==
    LET h == has_column(k.columns, to)
        first == CHOOSE i \in 1..(Len(k.cards) + 1) :
                    /\ i <= Len(k.cards) => k.cards[i] = card
                    /\ \A j \in 1..(i - 1) : k.cards[j] # card
    IN  IF ~h.ok THEN [k |-> k, r |-> h]
        ELSE [k |-> [k EXCEPT !.cards =
                        [i \in 1..Len(k.cards) |->
                            IF i = first THEN move_to(k.cards[i], to) ELSE k.cards[i]]],
              r |-> Ok(Unit)]

move_card_unchecked(k, to, card) ==
    [k |-> [k EXCEPT !.cards =
               [i \in 1..Len(k.cards) |->
                   IF k.cards[i] = card THEN move_to(k.cards[i], to) ELSE k.cards[i]]],
     r |-> Ok(Unit)]

move_card_ignore_column(k, to, card) ==
    LET h == has_column(k.columns, to)
    IN  IF ~h.ok THEN [k |-> k, r |-> h]
        ELSE [k |-> [k EXCEPT !.cards =
                        [i \in 1..Len(k.cards) |->
                            IF move_to(k.cards[i], to) = move_to(card, to)
                            THEN move_to(k.cards[i], to) ELSE k.cards[i]]],
              r |-> Ok(Unit)]

move_card(k, to, card) ==
    LET h == has_column(k.columns, to)
    IN  IF ~h.ok THEN [k |-> k, r |-> h]
        ELSE [k |-> [k EXCEPT !.cards =
                        [i \in 1..Len(k.cards) |->
                            IF k.cards[i] = card THEN move_to(k.cards[i], to) ELSE k.cards[i]]],
              r |-> Ok(Unit)]

-----------------------------------------------------------------------------
(* The values the calls are made with *)

ColA == <<"A">>
ColB == <<"B">>
Names == {ColA, ColB}

TitleT == <<"T">>
TitleU == <<"U">>
Date1 == <<"2", "0", "2", "4", "-", "0", "1", "-", "1", "5">>
Time1 == <<"1", "0", ":", "3", "0">>

\* status, title, date, time of the cards the board is called with
Shapes ==
    { <<"Done", TitleT, None, None>>,
      <<"Incomplete", TitleT, None, None>>,
      <<"Incomplete", TitleU, None, None>>,
      <<"Incomplete", TitleT, Some(Date1), None>>,
      <<"Incomplete", TitleT, None, Some(Time1)>> }

BoardCards == { Card(n, s[1], s[2], s[3], s[4]) : n \in Names, s \in Shapes }

NoCard == Card(<<>>, "Incomplete", <<>>, None, None)
NoOp == [name |-> "none", column |-> <<>>, card |-> NoCard]

-----------------------------------------------------------------------------
(* Initial values of the four groups of variables *)

BoardInit ==
    /\ \E names \in SeqsUpTo(Names, MaxColumns - 1) :
          /\ columns = Kanban_new(names).columns
          /\ cards = Kanban_new(names).cards
          /\ old = Kanban_new(names)
    /\ op = NoOp
    /\ res = Ok(Unit)

BoardIdle ==
    /\ columns = <<>>
    /\ cards = <<>>
    /\ old = Kanban_default
    /\ op = NoOp
    /\ res = Ok(Unit)

BuilderIdle ==
    /\ builder = CardBuilder_new
    /\ lastSet = CardBuilder_new
    /\ built = None

ParseIdle ==
    /\ input = <<>>
    /\ pairs = <<>>
    /\ pos = 0
    /\ kanban = Kanban_default
    /\ current_column = <<>>
    /\ out = None
    /\ pc = "idle"

StatusIdle ==
    /\ st_val = None
    /\ st_text = <<>>
    /\ st_res = None

NoCall == [name |-> "none", arg |-> <<>>]

CardIdle ==
    /\ c_self = NoCard
    /\ c_call = NoCall
    /\ c_ret = None

-----------------------------------------------------------------------------
(* The board: add_column, add_card and move_card called on one Kanban *)

Board == Kanban(columns, cards)

Apply(name, column, card, result) ==
    /\ old' = Board
    /\ op' = [name |-> name, column |-> column, card |-> card]
    /\ columns' = result.k.columns
    /\ cards' = result.k.cards
    /\ res' = result.r

AddColumn ==
    /\ Len(columns) < MaxColumns
    /\ \E name \in Names : Apply("add_column", name, NoCard, add_column(Board, name))
    /\ UNCHANGED <<builderVars, parseVars, statusVars, cardVars>>

AddCard ==
    /\ Len(cards) < MaxCards
    /\ \E card \in BoardCards : Apply("add_card", card.column, card, add_card(Board, card))
    /\ UNCHANGED <<builderVars, parseVars, statusVars, cardVars>>

MoveCard ==
    /\ \E to \in Names, card \in BoardCards :
          Apply("move_card", to, card, move_card(Board, to, card))
    /\ UNCHANGED <<builderVars, parseVars, statusVars, cardVars>>

Init == BoardInit /\ BuilderIdle /\ ParseIdle /\ StatusIdle /\ CardIdle

Next == AddColumn \/ AddCard \/ MoveCard

Spec == Init /\ [][Next]_vars

-----------------------------------------------------------------------------
(* Claims about the board (specification Spec) *)

\* C1: add_card(card) fails with the column-not-found error exactly when
\* card.column is not in columns; a failing call leaves columns and cards as
\* they were, a successful one appends the card unchanged as the last card.
C1_AddCardChecksColumn ==
    op.name = "add_card" =>
        /\ res.ok \/ res = Err(ColumnNotFound)
        /\ ~res.ok <=> ~Contains(old.columns, op.card.column)
        /\ ~res.ok => columns = old.columns /\ cards = old.cards
        /\ res.ok => /\ columns = old.columns
                     /\ cards = old.cards \o <<op.card>>

\* a failing add_card on a board that already holds cards
C1_Witness ==
    /\ op.name = "add_card"
    /\ res = Err(ColumnNotFound)
    /\ Len(old.cards) > 0
    /\ Len(old.columns) > 0

\* C2: with target present in columns, move_card(target, card) succeeds, every
\* stored card that was equal to card is afterwards in column target, no other
\* card changes column, and without a match the card list is unchanged.
C2_MoveCardRelocatesEqualCards ==
    (op.name = "move_card" /\ Contains(old.columns, op.column)) =>
        /\ res.ok
        /\ Len(cards) = Len(old.cards)
        /\ \A i \in 1..Len(old.cards) :
              /\ old.cards[i] = op.card => cards[i].column = op.column
              /\ old.cards[i] # op.card => cards[i].column = old.cards[i].column
        /\ (\A i \in 1..Len(old.cards) : old.cards[i] # op.card) => cards = old.cards

\* two equal cards moved together to another column
C2_Witness ==
    /\ op.name = "move_card"
    /\ res.ok
    /\ op.column # op.card.column
    /\ Len(old.cards) = 2
    /\ old.cards[1] = op.card
    /\ old.cards[2] = op.card
    /\ cards[2].column = op.column

\* C3: move_card(target, card) fails with the column-not-found error exactly
\* when target is not in columns, and a failing call leaves every card and
\* the column list as they were.
C3_MoveCardChecksTarget ==
    op.name = "move_card" =>
        /\ res.ok \/ res = Err(ColumnNotFound)
        /\ ~res.ok <=> ~Contains(old.columns, op.column)
        /\ ~res.ok => columns = old.columns /\ cards = old.cards

\* a failing move_card of a card that is stored on the board
C3_Witness ==
    /\ op.name = "move_card"
    /\ res = Err(ColumnNotFound)
    /\ Contains(old.cards, op.card)
    /\ cards = old.cards

\* C8: add_column(name) always succeeds, also for a name already present;
\* columns becomes the previous columns with name appended, cards is unchanged.
C8_AddColumnAppends ==
    op.name = "add_column" =>
        /\ res = Ok(Unit)
        /\ columns = Append(old.columns, op.column)
        /\ cards = old.cards

\* add_column of a name that is already a column, on a board with cards
C8_Witness ==
    /\ op.name = "add_column"
    /\ Contains(old.columns, op.column)
    /\ Len(columns) = Len(old.columns) + 1
    /\ Len(cards) > 0

-----------------------------------------------------------------------------
(* CardBuilder: the fluent setters and build() (specification SpecBuilder) *)

BuilderNew ==
    /\ builder' = CardBuilder_new
    /\ lastSet' = CardBuilder_new
    /\ built' = None
    /\ UNCHANGED <<boardVars, parseVars, statusVars, cardVars>>

SetColumn ==
    /\ ~built.some
    /\ \E column \in Names :
          /\ builder' = CardBuilder_column(builder, column)
          /\ lastSet' = [lastSet EXCEPT !.column = Some(column)]
    /\ UNCHANGED <<built, boardVars, parseVars, statusVars, cardVars>>

SetStatus ==
    /\ ~built.some
    /\ \E status \in Status :
          /\ builder' = CardBuilder_status(builder, status)
          /\ lastSet' = [lastSet EXCEPT !.status = Some(status)]
    /\ UNCHANGED <<built, boardVars, parseVars, statusVars, cardVars>>

SetTitle ==
    /\ ~built.some
    /\ \E title \in {TitleT, TitleU} :
          /\ builder' = CardBuilder_title(builder, title)
          /\ lastSet' = [lastSet EXCEPT !.title = Some(title)]
    /\ UNCHANGED <<built, boardVars, parseVars, statusVars, cardVars>>

SetDate ==
    /\ ~built.some
    /\ \E date \in {Date1} :
          /\ builder' = CardBuilder_date(builder, date)
          /\ lastSet' = [lastSet EXCEPT !.date = Some(date)]
    /\ UNCHANGED <<built, boardVars, parseVars, statusVars, cardVars>>

SetTime ==
    /\ ~built.some
    /\ \E time \in {Time1} :
          /\ builder' = CardBuilder_time(builder, time)
          /\ lastSet' = [lastSet EXCEPT !.time = Some(time)]
    /\ UNCHANGED <<built, boardVars, parseVars, statusVars, cardVars>>

\* build(self) consumes the builder: no setter follows it
Build ==
    /\ ~built.some
    /\ built' = Some(CardBuilder_build(builder))
    /\ UNCHANGED <<builder, lastSet, boardVars, parseVars, statusVars, cardVars>>

InitBuilder == BoardIdle /\ BuilderIdle /\ ParseIdle /\ StatusIdle /\ CardIdle

NextBuilder ==
    BuilderNew \/ SetColumn \/ SetStatus \/ SetTitle \/ SetDate \/ SetTime \/ Build

SpecBuilder == InitBuilder /\ [][NextBuilder]_vars

\* C7: build() fails with the column-is-missing error whenever no column was
\* set (also when the title is missing too), with the title-is-missing error
\* when a column was set but no title, and otherwise returns the Card of the
\* last column and title set, the status set or Incomplete, and the date and
\* time set or absent.
C7_BuildRequiresColumnThenTitle ==
    built.some =>
        /\ ~lastSet.column.some => built.val = Err(MissingFieldColumn)
        /\ (lastSet.column.some /\ ~lastSet.title.some) => built.val = Err(MissingFieldTitle)
        /\ (lastSet.column.some /\ lastSet.title.some) =>
              built.val = Ok(Card(lastSet.column.val,
                                  IF lastSet.status.some THEN lastSet.status.val ELSE "Incomplete",
                                  lastSet.title.val, lastSet.date, lastSet.time))

\* build() called with neither column nor title set
C7_Witness ==
    /\ built.some
    /\ ~lastSet.column.some
    /\ ~lastSet.title.some
    /\ lastSet.status.some
    /\ built.val = Err(MissingFieldColumn)

-----------------------------------------------------------------------------
(* Status: Display and TryFrom<&str> (specification SpecStatus) *)

Chars == {"x", " ", "X", "y"}

StatusToString ==
    /\ \E s \in Status :
          /\ st_val' = Some(s)
          /\ st_text' = Status_to_string(s)
    /\ st_res' = None
    /\ UNCHANGED <<boardVars, builderVars, parseVars, cardVars>>

\* a text that comes from elsewhere
StatusText ==
    /\ \E t \in SeqsUpTo(Chars, MaxStatusLen) : st_text' = t
    /\ st_val' = None
    /\ st_res' = None
    /\ UNCHANGED <<boardVars, builderVars, parseVars, cardVars>>

StatusTryFrom ==
    /\ ~st_res.some
    /\ st_res' = Some(Status_try_from(st_text))
    /\ UNCHANGED <<st_val, st_text, boardVars, builderVars, parseVars, cardVars>>

InitStatus == BoardIdle /\ BuilderIdle /\ ParseIdle /\ StatusIdle /\ CardIdle

NextStatus == StatusToString \/ StatusText \/ StatusTryFrom

SpecStatus == InitStatus /\ [][NextStatus]_vars

\* C10: the text of a status (Done "x", Incomplete " ") parses back to the
\* same status, and any text other than "x" and " " fails to parse with the
\* invalid-status-character error.
C10_StatusRoundTrip ==
    st_res.some =>
        /\ st_val.some =>
              /\ st_text = (IF st_val.val = "Done" THEN <<"x">> ELSE <<" ">>)
              /\ st_res.val = Ok(st_val.val)
        /\ st_text \notin {<<"x">>, <<" ">>} =>
              /\ ~st_res.val.ok
              /\ st_res.val.err = InvalidStatusChar \o st_text

\* Done rendered and parsed back
C10_Witness ==
    /\ st_res.some
    /\ st_val = Some("Done")
    /\ st_res.val = Ok("Done")

-----------------------------------------------------------------------------
(* The grammar (kanban.pest), as the design document describes it: a       *)
(* document is its lines; the grammar turns them into the column_heading   *)
(* and card pairs that Kanban::parse folds, or fails.  The title text runs *)
(* up to the first annotation marker and is not trimmed (the parse test    *)
(* trims the title itself); the heading text is trimmed.                   *)

GrammarMismatch == <<"GrammarMismatch">>

Prefix(s, p) == Len(s) >= Len(p) /\ SubSeq(s, 1, Len(p)) = p

Drop(s, n) == SubSeq(s, n + 1, Len(s))

Min(S) == CHOOSE x \in S : \A y \in S : x <= y

\* index of the first occurrence of p in s, 0 if there is none
Find(s, p) ==
    LET I == {i \in 1..(Len(s) - Len(p) + 1) : SubSeq(s, i, i + Len(p) - 1) = p}
    IN  IF I = {} THEN 0 ELSE Min(I)

RECURSIVE TrimStart(_)
TrimStart(s) == IF s # <<>> /\ Head(s) = " " THEN TrimStart(Tail(s)) ELSE s

RECURSIVE TrimEnd(_)
TrimEnd(s) == IF s # <<>> /\ s[Len(s)] = " " THEN TrimEnd(SubSeq(s, 1, Len(s) - 1)) ELSE s

Trim(s) == TrimEnd(TrimStart(s))

Digit == {"0", "1", "2", "3", "4", "5", "6", "7", "8", "9"}

\* YYYY-MM-DD
IsDate(d) ==
    /\ Len(d) = 10
    /\ \A i \in {1, 2, 3, 4, 6, 7, 9, 10} : d[i] \in Digit
    /\ d[5] = "-"
    /\ d[8] = "-"

\* HH:MM
IsTime(t) ==
    /\ Len(t) = 5
    /\ \A i \in {1, 2, 4, 5} : t[i] \in Digit
    /\ t[3] = ":"

DateOpen == <<"@", "{">>
TimeOpen == <<"@", "@", "{">>

\* what follows the title: [ @{date} ] [ @@{time} ]
Annotations(tail) ==
    LET hasDate == Prefix(tail, DateOpen)
        dateOk == Len(tail) >= 13 /\ IsDate(SubSeq(tail, 3, 12)) /\ tail[13] = "}"
        rest1 == IF hasDate THEN TrimStart(Drop(tail, 13)) ELSE tail
        hasTime == Prefix(rest1, TimeOpen)
        timeOk == Len(rest1) >= 9 /\ IsTime(SubSeq(rest1, 4, 8)) /\ rest1[9] = "}"
        rest2 == IF hasTime THEN TrimStart(Drop(rest1, 9)) ELSE rest1
    IN  IF (hasDate /\ ~dateOk) \/ (hasTime /\ ~timeOk) \/ rest2 # <<>>
        THEN [ok |-> FALSE, date |-> None, time |-> None]
        ELSE [ok |-> TRUE,
              date |-> IF hasDate THEN Some(SubSeq(tail, 3, 12)) ELSE None,
              time |-> IF hasTime THEN Some(SubSeq(rest1, 4, 8)) ELSE None]

Pair(rule, line, status, text, date, time) ==
    [rule |-> rule, line |-> line, status |-> status, text |-> text, date |-> date, time |-> time]

NoPair == Pair("none", 0, "incomplete", <<>>, None, None)

HeadingOpen == <<"#", "#", " ">>
CardOpen == <<"-", " ", "[">>

\* one line: a pair, a skipped line, or a mismatch
MatchLine(l, i) ==
    IF Prefix(l, HeadingOpen)
    THEN LET text == Trim(Drop(l, 3))
         IN  IF text = <<>> THEN [kind |-> "skip", pair |-> NoPair]
             ELSE [kind |-> "pair",
                   pair |-> Pair("column_heading", i, "incomplete", text, None, None)]
    ELSE IF Prefix(l, CardOpen)
    THEN IF Len(l) < 6 \/ l[4] \notin {"x", " "} \/ l[5] # "]" \/ l[6] # " "
         THEN [kind |-> "fail", pair |-> NoPair]
         ELSE LET rest == Drop(l, 6)
                  md == Find(rest, DateOpen)
                  mt == Find(rest, TimeOpen)
                  m == IF mt # 0 /\ (md = 0 \/ mt < md) THEN mt ELSE md
                  text == IF m = 0 THEN rest ELSE SubSeq(rest, 1, m - 1)
                  tail == IF m = 0 THEN <<>> ELSE Drop(rest, m - 1)
                  a == Annotations(tail)
              IN  IF ~a.ok THEN [kind |-> "fail", pair |-> NoPair]
                  ELSE [kind |-> "pair",
                        pair |-> Pair("card", i, IF l[4] = "x" THEN "complete" ELSE "incomplete",
                                      text, a.date, a.time)]
    ELSE [kind |-> "skip", pair |-> NoPair]

FrontDelim == <<"-", "-", "-">>
TrailOpen == <<"%", "%">>

\* last line of the leading frontmatter block, 0 if there is none
FrontEnd(doc) ==
    LET J == {j \in 2..Len(doc) : doc[j] = FrontDelim}
    IN  IF Len(doc) >= 1 /\ doc[1] = FrontDelim /\ J # {} THEN Min(J) ELSE 0

\* first line of the trailing block, Len(doc) + 1 if there is none
TrailStart(doc) ==
    LET J == {j \in (FrontEnd(doc) + 1)..Len(doc) : doc[j] = TrailOpen}
    IN  IF J = {} THEN Len(doc) + 1 ELSE Min(J)

Body(doc) == (FrontEnd(doc) + 1)..(TrailStart(doc) - 1)

RECURSIVE Collect(_, _, _)
Collect(doc, i, hi) ==
    IF i > hi THEN <<>>
    ELSE LET m == MatchLine(doc[i], i)
         IN  (IF m.kind = "pair" THEN <<m.pair>> ELSE <<>>) \o Collect(doc, i + 1, hi)

\* KanbanParser::parse(Rule::kanban, input)
Pest(doc) ==
    IF \E i \in Body(doc) : MatchLine(doc[i], i).kind = "fail"
    THEN Err(GrammarMismatch)
    ELSE Ok(Collect(doc, FrontEnd(doc) + 1, TrailStart(doc) - 1))

-----------------------------------------------------------------------------
(* kanban.rs: Kanban::parse *)

\* the ? of a failing production: the function returns the error, its local
\* kanban is dropped
parse_fail_partial(k, e) == Ok(k)

parse_fail(k, e) == Err(e)

parse_heading_dedup(k, pair) ==
    IF Contains(k.columns, pair.text) THEN [k |-> k, r |-> Ok(Unit)]
    ELSE add_column(k, pair.text)

parse_heading(k, pair) == add_column(k, pair.text)

parse_card_skip_orphan(k, cur, pair) ==
    LET status == IF pair.status = "complete" THEN "Done" ELSE "Incomplete"
        b0 == CardBuilder_status(
                  CardBuilder_title(CardBuilder_column(CardBuilder_new, cur), pair.text),
                  status)
        b == IF pair.date.some THEN CardBuilder_date(b0, pair.date.val) ELSE b0
        c == CardBuilder_build(b)
    IN  IF cur = <<>> THEN [k |-> k, r |-> Ok(Unit)]
        ELSE IF ~c.ok THEN [k |-> k, r |-> Err(c.err)] ELSE add_card(k, c.val)

parse_card(k, cur, pair) ==
    LET status == IF pair.status = "complete" THEN "Done" ELSE "Incomplete"
        b0 == CardBuilder_status(
                  CardBuilder_title(CardBuilder_column(CardBuilder_new, cur), pair.text),
                  status)
        b == IF pair.date.some THEN CardBuilder_date(b0, pair.date.val) ELSE b0
        c == CardBuilder_build(b)
    IN  IF ~c.ok THEN [k |-> k, r |-> Err(c.err)] ELSE add_card(k, c.val)

\* the lines the documents are made of
ParseShapes == Shapes \cup { <<"Done", TitleU, Some(Date1), Some(Time1)>> }

CardLines == { Card_to_string(Card(ColA, s[1], s[2], s[3], s[4])) : s \in ParseShapes }

Lines ==
    { HeadingOpen \o ColA, HeadingOpen \o ColB,
      <<>>, <<"n", "o", "t", "e">>, FrontDelim, TrailOpen,
      <<"-", " ", "[", "y", "]", " ", "T">> }
    \cup CardLines

ParseCall ==
    /\ pc = "idle"
    /\ \E doc \in SeqsUpTo(Lines, MaxLines) :
          /\ input' = doc
          /\ LET g == Pest(doc)
             IN  IF ~g.ok
                 THEN /\ out' = Some(Err(g.err))
                      /\ pc' = "done"
                      /\ UNCHANGED <<pairs, pos, kanban, current_column>>
                 ELSE /\ pairs' = g.val
                      /\ kanban' = Kanban_default
                      /\ current_column' = <<>>
                      /\ pos' = 1
                      /\ pc' = "loop"
                      /\ out' = None
    /\ UNCHANGED <<boardVars, builderVars, statusVars, cardVars>>

ParseStep(s) ==
    IF s.r.ok
    THEN /\ kanban' = s.k
         /\ pos' = pos + 1
         /\ UNCHANGED <<out, pc>>
    ELSE /\ out' = Some(parse_fail(kanban, s.r.err))
         /\ pc' = "done"
         /\ UNCHANGED <<kanban, pos>>

ParseHeading ==
    /\ pc = "loop"
    /\ pos <= Len(pairs)
    /\ pairs[pos].rule = "column_heading"
    /\ current_column' = pairs[pos].text
    /\ ParseStep(parse_heading(kanban, pairs[pos]))
    /\ UNCHANGED <<input, pairs, boardVars, builderVars, statusVars, cardVars>>

ParseCard ==
    /\ pc = "loop"
    /\ pos <= Len(pairs)
    /\ pairs[pos].rule = "card"
    /\ ParseStep(parse_card(kanban, current_column, pairs[pos]))
    /\ UNCHANGED <<input, pairs, current_column, boardVars, builderVars, statusVars, cardVars>>

ParseReturn ==
    /\ pc = "loop"
    /\ pos > Len(pairs)
    /\ out' = Some(Ok(kanban))
    /\ pc' = "done"
    /\ UNCHANGED <<input, pairs, pos, kanban, current_column, boardVars, builderVars, statusVars, cardVars>>

InitParse == BoardIdle /\ BuilderIdle /\ ParseIdle /\ StatusIdle /\ CardIdle

NextParse == ParseCall \/ ParseHeading \/ ParseCard \/ ParseReturn

SpecParse == InitParse /\ [][NextParse]_vars

-----------------------------------------------------------------------------
(* Claims about Kanban::parse (specification SpecParse) *)

IsPair(doc, i, rule) ==
    /\ MatchLine(doc[i], i).kind = "pair"
    /\ MatchLine(doc[i], i).pair.rule = rule

\* a card line with no column heading before it
OrphanCardLine(doc) ==
    \E i \in Body(doc) :
        /\ IsPair(doc, i, "card")
        /\ \A j \in Body(doc) : j < i => ~IsPair(doc, j, "column_heading")

\* the error kinds the code can report
CodeErrorKinds == {ColumnNotFound, MissingFieldColumn, MissingFieldTitle, GrammarMismatch}

\* C4 as stated: parsing a document with a card line before any column
\* heading fails with an error kind of its own, MissingColumnBeforeCard,
\* distinct from ColumnNotFound (and from the other kinds).
C4_OrphanCardHasOwnErrorKind ==
    (pc = "done" /\ OrphanCardLine(input)) =>
        /\ ~out.val.ok
        /\ out.val.err \notin CodeErrorKinds

\* C4 as amended: parsing a document with a card line before any column
\* heading fails; when the document matches the grammar it fails with the
\* column-not-found error of add_card, whatever follows the card line, and
\* otherwise with the grammar error.
C4_OrphanCardFailsColumnNotFound ==
    (pc = "done" /\ OrphanCardLine(input)) =>
        /\ ~out.val.ok
        /\ out.val.err = (IF Pest(input).ok THEN ColumnNotFound ELSE GrammarMismatch)

\* a card line first, a column heading after it
C4_Witness ==
    /\ pc = "done"
    /\ OrphanCardLine(input)
    /\ Len(pairs) >= 2
    /\ pairs[1].rule = "card"
    /\ pairs[2].rule = "column_heading"
    /\ out = Some(Err(ColumnNotFound))

\* the card pair folded last (pos advances only when the production succeeded)
FoldedCard == pos > 1 /\ pos - 1 <= Len(pairs) /\ pairs[pos - 1].rule = "card"

LastCard == kanban.cards[Len(kanban.cards)]

\* C5: the card appended for a card line has the status, title, date and time
\* written on the line: Done for 'x', Incomplete for ' ', the date iff the
\* @{...} annotation is present, the time iff the @@{...} annotation is present.
C5_ParsedCardHasLineFields ==
    FoldedCard =>
        LET p == pairs[pos - 1]
        IN  /\ LastCard.status = (IF input[p.line][4] = "x" THEN "Done" ELSE "Incomplete")
            /\ LastCard.title = p.text
            /\ LastCard.date = p.date
            /\ LastCard.time = p.time

\* the cards CardBuilder builds
Constructible ==
    { CardBuilder_build(b).val :
        b \in [column : {Some(ColA)},
               status : {None} \cup {Some(x) : x \in Status},
               title : {Some(TitleT), Some(TitleU)},
               date : {None, Some(Date1)},
               time : {None, Some(Time1)}] }

\* C6: parsing the rendered text of a constructed card as a card line under a
\* current column gives a card equal to it in status, title, date and time.
C6_RenderParseRoundTrip ==
    FoldedCard =>
        \A c \in Constructible :
            input[pairs[pos - 1].line] = Card_to_string(c) =>
                /\ LastCard.status = c.status
                /\ LastCard.title = c.title
                /\ LastCard.date = c.date
                /\ LastCard.time = c.time

RECURSIVE TextsOf(_, _)
TextsOf(ps, rule) ==
    IF ps = <<>> THEN <<>>
    ELSE (IF Head(ps).rule = rule THEN <<Head(ps).text>> ELSE <<>>) \o TextsOf(Tail(ps), rule)

TitlesOf(cds) == [i \in 1..Len(cds) |-> cds[i].title]

\* C9: parse returns nothing before it is done; a document with a failing
\* production (or not matching the grammar) gives only an error, with no
\* board in it; a success gives the board of every heading and every card of
\* the document, in order.
C9_ParseAtomic ==
    /\ pc # "done" => out = None
    /\ pc = "done" =>
          /\ out.some
          /\ (~Pest(input).ok \/ OrphanCardLine(input)) =>
                ~out.val.ok /\ out.val.val = Unit
          /\ out.val.ok =>
                /\ Pest(input).ok
                /\ out.val.val.columns = TextsOf(Pest(input).val, "column_heading")
                /\ TitlesOf(out.val.val.cards) = TextsOf(Pest(input).val, "card")

\* a production fails and more productions follow it
C9_Witness ==
    /\ pc = "done"
    /\ out = Some(Err(ColumnNotFound))
    /\ pos = 1
    /\ Len(pairs) = 3
    /\ pairs[2].rule = "column_heading"
    /\ pairs[3].rule = "card"

-----------------------------------------------------------------------------
(* Card: Display, rename and mut_rename (specification SpecCard) *)

CardValues ==
    { Card(n, s, t, d, h) :
        n \in Names, s \in Status, t \in {TitleT, TitleU},
        d \in {None, Some(Date1)}, h \in {None, Some(Time1)} }

NewTitles == {TitleT, TitleU, <<"V", "W">>}

\* a card comes out of CardBuilder::build
CardBuilt ==
    /\ \E b \in [column : {Some(n) : n \in Names},
                 status : {None} \cup {Some(x) : x \in Status},
                 title : {Some(TitleT), Some(TitleU)},
                 date : {None, Some(Date1)},
                 time : {None, Some(Time1)}] :
          c_self' = CardBuilder_build(b).val
    /\ c_call' = NoCall
    /\ c_ret' = None
    /\ UNCHANGED <<boardVars, builderVars, parseVars, statusVars>>

CardToString ==
    /\ c_self # NoCard
    /\ c_call' = [name |-> "to_string", arg |-> <<>>]
    /\ c_ret' = Some(Card_to_string(c_self))
    /\ UNCHANGED <<c_self, boardVars, builderVars, parseVars, statusVars>>

\* rename(&self, ..) borrows the card
CardRename ==
    /\ c_self # NoCard
    /\ \E new_name \in NewTitles :
          /\ c_call' = [name |-> "rename", arg |-> new_name]
          /\ c_ret' = Some(Card_rename(c_self, new_name))
    /\ UNCHANGED <<c_self, boardVars, builderVars, parseVars, statusVars>>

\* mut_rename(mut self, ..) takes the card; c_self keeps the value it was called on
CardMutRename ==
    /\ c_self # NoCard
    /\ \E new_name \in NewTitles :
          /\ c_call' = [name |-> "mut_rename", arg |-> new_name]
          /\ c_ret' = Some(Card_mut_rename(c_self, new_name))
    /\ UNCHANGED <<c_self, boardVars, builderVars, parseVars, statusVars>>

InitCard == BoardIdle /\ BuilderIdle /\ ParseIdle /\ StatusIdle /\ CardIdle

NextCard == CardBuilt \/ CardToString \/ CardRename \/ CardMutRename

SpecCard == InitCard /\ [][NextCard]_vars

\* C11: the rendered text is "- [" + status character + "] " + title, then
\* " @{" + date + "}" iff the date is present, then " @@{" + time + "}" iff the
\* time is present, the date suffix before the time suffix; the column is not
\* rendered (the text is the same for every column).
C11_CardRendering ==
    c_call.name = "to_string" =>
        LET ch == IF c_self.status = "Done" THEN "x" ELSE " "
            head == <<"-", " ", "[", ch, "]", " ">> \o c_self.title
            n == Len(head)
            dlen == IF c_self.date.some THEN 4 + Len(c_self.date.val) ELSE 0
            tlen == IF c_self.time.some THEN 5 + Len(c_self.time.val) ELSE 0
            text == c_ret.val
        IN  /\ Len(text) = n + dlen + tlen
            /\ SubSeq(text, 1, n) = head
            /\ c_self.date.some =>
                  SubSeq(text, n + 1, n + dlen) = <<" ", "@", "{">> \o c_self.date.val \o <<"}">>
            /\ c_self.time.some =>
                  SubSeq(text, n + dlen + 1, n + dlen + tlen)
                      = <<" ", "@", "@", "{">> \o c_self.time.val \o <<"}">>
            /\ \A other \in Names : Card_to_string(move_to(c_self, other)) = text

\* a card with both a date and a time rendered
C11_Witness ==
    /\ c_call.name = "to_string"
    /\ c_self.date.some
    /\ c_self.time.some
    /\ c_self.status = "Done"
    /\ c_ret.some

\* what rename and mut_rename return
RenameReturn ==
    c_call.name \in {"rename", "mut_rename"} =>
        /\ c_ret.val.column = c_self.column
        /\ c_ret.val.status = c_self.status
        /\ c_ret.val.date = c_self.date
        /\ c_ret.val.time = c_self.time
        /\ c_ret.val.title = c_call.arg
        /\ c_call.name = "rename" => c_ret.val = Card_mut_rename(c_self, c_call.arg)
        /\ c_call.name = "mut_rename" => c_ret.val = Card_rename(c_self, c_call.arg)

\* C12: rename returns a card equal to the original in column, status, date
\* and time with the new title, the original is unchanged, and mut_rename
\* returns the same card as rename does for the same card and title.
C12_RenameChangesTitleOnly ==
    /\ []RenameReturn
    /\ [][c_call'.name = "rename" => c_self' = c_self]_vars

\* rename of a card with status Done, a date and a time to a different title
C12_Witness ==
    /\ c_call.name = "rename"
    /\ c_self.status = "Done"
    /\ c_self.date.some
    /\ c_self.time.some
    /\ c_call.arg # c_self.title
    /\ c_ret.val.title = c_call.arg

-----------------------------------------------------------------------------
(* Claims about sequences of board calls (specification Spec) *)

\* C13: in every state reached from an empty board or from new(column_names)
\* by add_column, add_card and move_card calls, successful or failing, the
\* column of every stored card appears in columns.
C13_ReferentialIntegrity ==
    \A i \in 1..Len(cards) : Contains(columns, cards[i].column)

\* a stored card has been moved to another column
C13_Witness ==
    /\ op.name = "move_card"
    /\ res.ok
    /\ \E i \in 1..Len(cards) :
          /\ old.cards[i].column # cards[i].column
          /\ cards[i].column = op.column
    /\ Len(columns) >= 2

\* C15: after a successful move_card(t, c) with t different from c.column no
\* stored card equals c, and a following move_card(t2, c) with t2 in columns
\* succeeds and changes nothing (so move_card(t, c) twice is move_card(t, c)
\* once).
C15_MoveCardTwice ==
    [][ (op.name = "move_card" /\ res.ok /\ op.column # op.card.column) =>
            /\ ~Contains(cards, op.card)
            /\ (op'.name = "move_card" /\ op'.card = op.card /\ Contains(columns, op'.column)) =>
                  /\ res'.ok
                  /\ cards' = cards
                  /\ columns' = columns ]_vars

\* move_card(t, c) called on a board that holds c already moved to t, and
\* nothing changed
C15_Witness ==
    /\ op.name = "move_card"
    /\ res.ok
    /\ op.column # op.card.column
    /\ cards = old.cards
    /\ Contains(cards, move_to(op.card, op.column))
    /\ ~Contains(cards, op.card)

\* C16: a successful move_card leaves columns, the number and order of the
\* cards, and the status, title, date and time of every card unchanged; only
\* the column of the cards equal to the argument differs.
C16_MoveCardFrame ==
    (op.name = "move_card" /\ res.ok) =>
        /\ columns = old.columns
        /\ Len(cards) = Len(old.cards)
        /\ \A i \in 1..Len(old.cards) :
              /\ cards[i].status = old.cards[i].status
              /\ cards[i].title = old.cards[i].title
              /\ cards[i].date = old.cards[i].date
              /\ cards[i].time = old.cards[i].time
              /\ cards[i].column # old.cards[i].column => old.cards[i] = op.card

\* a Done card moved, next to a card that stays
C16_Witness ==
    /\ op.name = "move_card"
    /\ res.ok
    /\ op.card.status = "Done"
    /\ Len(cards) = 2
    /\ old.cards[1] = op.card
    /\ cards[1].column # old.cards[1].column
    /\ old.cards[2] # op.card
    /\ cards[2] = old.cards[2]

IsPrefix(s, t) == Len(s) <= Len(t) /\ SubSeq(t, 1, Len(s)) = s

\* C17: across add_column, add_card and move_card calls the column sequence
\* of a state is a prefix of the column sequence of the next state, and the
\* number of stored cards does not decrease.
C17_AppendOnly ==
    [][ IsPrefix(columns, columns') /\ Len(cards') >= Len(cards) ]_vars

\* a column appended after a different one, on a board with cards
C17_Witness ==
    /\ op.name = "add_column"
    /\ Len(old.columns) >= 1
    /\ old.columns[1] # op.column
    /\ columns = Append(old.columns, op.column)
    /\ Len(cards) >= 1

-----------------------------------------------------------------------------
(* Claims about the board a successful parse returns (specification SpecParse) *)

RECURSIVE IndicesOf(_, _, _)
IndicesOf(ps, rule, i) ==
    IF i > Len(ps) THEN <<>>
    ELSE (IF ps[i].rule = rule THEN <<i>> ELSE <<>>) \o IndicesOf(ps, rule, i + 1)

\* the text of the last column_heading pair before pair j, <<>> if there is none
NearestHeading(ps, j) ==
    LET H == {i \in 1..(j - 1) : ps[i].rule = "column_heading"}
    IN  IF H = {} THEN <<>> ELSE ps[CHOOSE i \in H : \A h \in H : h <= i].text

\* C14: in a successful parse, columns holds one entry per column heading in
\* document order (a repeated name is registered again), cards holds one
\* entry per card line in document order, and the column of each card is the
\* name of the nearest heading before its line.
C14_ParseDocumentOrder ==
    (pc = "done" /\ out.val.ok) =>
        LET ps == Pest(input).val
            cs == IndicesOf(ps, "card", 1)
            b == out.val.val
        IN  /\ b.columns = TextsOf(ps, "column_heading")
            /\ Len(b.cards) = Len(cs)
            /\ \A i \in 1..Len(cs) :
                  /\ b.cards[i].title = ps[cs[i]].text
                  /\ b.cards[i].column = NearestHeading(ps, cs[i])

\* two different headings, then a card: the card is in the second column
C14_Witness ==
    /\ pc = "done"
    /\ out.val.ok
    /\ Len(out.val.val.columns) = 2
    /\ out.val.val.columns[1] # out.val.val.columns[2]
    /\ Len(out.val.val.cards) = 1
    /\ out.val.val.cards[1].column = out.val.val.columns[2]
    /\ pairs[3].rule = "card"

====
